---- MODULE Spec2Model ----
(***************************************************************************)
(* Model of canada-hsa-calculator: the bracket rate functions              *)
(* (marginalRate, effectiveTaxRate) and calculate, over the compiled-in    *)
(* 2025 tables.                                                            *)
(*                                                                         *)
(* A JavaScript number is modelled as an exact rational <<n, d>> in lowest *)
(* terms with d > 0; d = 0 holds the non-finite values: <<1, 0>> is        *)
(* Infinity, <<-1, 0>> is -Infinity and <<0, 0>> is NaN.  Rounding of the  *)
(* binary floating-point representation is not modelled.                   *)
(***************************************************************************)
EXTENDS Integers, Sequences, FiniteSets, TLC

VARIABLES
    FEDERAL_TAX_BRACKETS,  \* types.ts: the federal table
    PROVINCES,             \* types.ts: province code -> Province
    income,                \* argument of marginalRate / effectiveTaxRate
    brackets,              \* argument of marginalRate / effectiveTaxRate
    marginal,              \* <<>> or <<value returned by marginalRate>>
    effective,             \* <<>> or <<value returned by effectiveTaxRate>>
    input,                 \* <<>> or <<the CalculatorInput calculate was called with>>
    outcome,               \* <<>> or <<what that call returned or threw>>
    probe,                 \* how input's annualMedicalExpenses was chosen
    calls                  \* the calls of calculate a caller has made so far, in order

vars == <<FEDERAL_TAX_BRACKETS, PROVINCES, income, brackets, marginal,
          effective, input, outcome, probe, calls>>

----------------------------------------------------------------------------
(* Numbers *)

Abs(x) == IF x < 0 THEN -x ELSE x

Sign(x) == IF x < 0 THEN -1 ELSE IF x > 0 THEN 1 ELSE 0

RECURSIVE GCD(_, _)
GCD(a, b) == IF b = 0 THEN a ELSE GCD(b, a % b)

\* n/d in lowest terms, d > 0; a zero denominator keeps only the sign of n.
Norm(n, d) ==
    IF d = 0 THEN <<Sign(n), 0>>
    ELSE LET g == GCD(Abs(n), Abs(d))
             s == Sign(d)
         IN  <<s * (n \div g), s * (d \div g)>>

Whole(n) == <<n, 1>>

\* a decimal literal with four fractional digits: Dec4(2965) is 0.2965
Dec4(n) == Norm(n, 10000)

Infinity == <<1, 0>>

NaN == <<0, 0>>

IsNaN(a) == a = NaN

IsFinite(a) == a[2] # 0

RNeg(a) == <<-a[1], a[2]>>

RAdd(a, b) ==
    IF IsFinite(a) /\ IsFinite(b)
    THEN LET g == GCD(a[2], b[2])
         IN  Norm(a[1] * (b[2] \div g) + b[1] * (a[2] \div g), a[2] * (b[2] \div g))
    ELSE IF IsNaN(a) \/ IsNaN(b) THEN NaN
    ELSE IF IsFinite(a) THEN b
    ELSE IF IsFinite(b) THEN a
    ELSE IF a = b THEN a ELSE NaN

RSub(a, b) == RAdd(a, RNeg(b))

RMul(a, b) ==
    IF IsFinite(a) /\ IsFinite(b)
    THEN LET g1 == GCD(Abs(a[1]), b[2])
             g2 == GCD(Abs(b[1]), a[2])
         IN  Norm((a[1] \div g1) * (b[1] \div g2), (a[2] \div g2) * (b[2] \div g1))
    ELSE IF IsNaN(a) \/ IsNaN(b) \/ a[1] = 0 \/ b[1] = 0 THEN NaN
    ELSE <<Sign(a[1]) * Sign(b[1]), 0>>

\* IEEE division: x/0 is +-Infinity (NaN for 0/0), x/+-Infinity is 0.
RDiv(a, b) ==
    IF IsNaN(a) \/ IsNaN(b) THEN NaN
    ELSE IF ~IsFinite(b) THEN (IF IsFinite(a) THEN Whole(0) ELSE NaN)
    ELSE IF b[1] = 0 THEN <<Sign(a[1]), 0>>
    ELSE RMul(a, Norm(b[2], b[1]))

\* the order of a/b and c/d (b, d > 0) as -1, 0 or 1, by their continued
\* fractions, so that no product is formed
RECURSIVE CmpFrac(_, _, _, _)
CmpFrac(a, b, c, d) ==
    LET q1 == a \div b
        q2 == c \div d
        r1 == a % b
        r2 == c % d
    IN  IF q1 # q2 THEN (IF q1 < q2 THEN -1 ELSE 1)
        ELSE IF r1 = 0 \/ r2 = 0 THEN (IF r1 = r2 THEN 0 ELSE IF r1 = 0 THEN -1 ELSE 1)
        ELSE CmpFrac(d, r2, b, r1)

\* a <= b, a < b, a > b as JavaScript compares numbers (false when either is NaN)
RLe(a, b) == ~IsNaN(a) /\ ~IsNaN(b) /\
    IF IsFinite(a) /\ IsFinite(b) THEN CmpFrac(a[1], a[2], b[1], b[2]) <= 0
    ELSE IF IsFinite(a) THEN b[1] > 0
    ELSE IF IsFinite(b) THEN a[1] < 0
    ELSE a[1] <= b[1]

RLt(a, b) == RLe(a, b) /\ a # b

RGt(a, b) == RLt(b, a)

\* Math.min
RMin(a, b) == IF IsNaN(a) \/ IsNaN(b) THEN NaN ELSE IF RLe(a, b) THEN a ELSE b

----------------------------------------------------------------------------
(* types.ts: the compiled-in tables *)

\* { threshold: t, rate: r } with r written in ten-thousandths
TaxBracket(t, r) == [threshold |-> Whole(t), rate |-> Dec4(r)]

\* TopBracket with its rate entered as a percentage: 33 for 0.33
TopBracketPercent(r) == [threshold |-> Infinity, rate |-> Norm(r, 100)]

\* { threshold: Infinity, rate: r }
TopBracket(r) == [threshold |-> Infinity, rate |-> Dec4(r)]

\* FederalTable with the second and third thresholds transposed
FederalTableTransposed ==
    << TaxBracket(57375, 1500), TaxBracket(177882, 2050),
       TaxBracket(114750, 2600), TaxBracket(253414, 2900), TopBracket(3300) >>

FederalTable ==
    << TaxBracket(57375, 1500), TaxBracket(114750, 2050),
       TaxBracket(177882, 2600), TaxBracket(253414, 2900), TopBracket(3300) >>

ProvinceCode == {"AB", "BC", "MB", "NB", "NL", "NS", "ON", "PE", "SK", "YT"}

\* the code field of the entry written under key c
ProvinceCodeField(c) ==
    CASE c = "AB" -> "AB"
      [] c = "BC" -> "BC"
      [] c = "MB" -> "MB"
      [] c = "NB" -> "NB"
      [] c = "NL" -> "NL"
      [] c = "NS" -> "NS"
      [] c = "ON" -> "ON"
      [] c = "PE" -> "PE"
      [] c = "SK" -> "SK"
      [] c = "YT" -> "YT"

ProvinceName(c) ==
    CASE c = "AB" -> "Alberta"
      [] c = "BC" -> "British Columbia"
      [] c = "MB" -> "Manitoba"
      [] c = "NB" -> "New Brunswick"
      [] c = "NL" -> "Newfoundland and Labrador"
      [] c = "NS" -> "Nova Scotia"
      [] c = "ON" -> "Ontario"
      [] c = "PE" -> "Prince Edward Island"
      [] c = "SK" -> "Saskatchewan"
      [] c = "YT" -> "Yukon"

ProvinceBrackets(c) ==
    CASE c = "AB" -> << TaxBracket(151234, 1000), TaxBracket(181481, 1200),
                        TaxBracket(241974, 1300), TaxBracket(362961, 1400),
                        TopBracket(1500) >>
      [] c = "BC" -> << TaxBracket(49279, 506), TaxBracket(98560, 770),
                        TaxBracket(113158, 1050), TaxBracket(137407, 1229),
                        TaxBracket(186306, 1470), TaxBracket(259829, 1680),
                        TopBracket(2050) >>
      [] c = "MB" -> << TaxBracket(47564, 1080), TaxBracket(101200, 1275),
                        TopBracket(1740) >>
      [] c = "NB" -> << TaxBracket(51306, 940), TaxBracket(102614, 1400),
                        TaxBracket(190060, 1600), TopBracket(1950) >>
      [] c = "NL" -> << TaxBracket(44192, 870), TaxBracket(88382, 1450),
                        TaxBracket(157792, 1580), TaxBracket(220910, 1780),
                        TaxBracket(282214, 1980), TaxBracket(564429, 2080),
                        TaxBracket(1128858, 2130), TopBracket(2180) >>
      [] c = "NS" -> << TaxBracket(30507, 879), TaxBracket(61015, 1495),
                        TaxBracket(95883, 1667), TaxBracket(154650, 1750),
                        TopBracket(2100) >>
      [] c = "ON" -> << TaxBracket(52886, 505), TaxBracket(105775, 915),
                        TaxBracket(150000, 1116), TaxBracket(220000, 1216),
                        TopBracket(1316) >>
      [] c = "PE" -> << TaxBracket(33328, 950), TaxBracket(64656, 1347),
                        TaxBracket(105000, 1660), TaxBracket(140000, 1762),
                        TopBracket(1900) >>
      [] c = "SK" -> << TaxBracket(53463, 1050), TaxBracket(152750, 1250),
                        TopBracket(1450) >>
      [] c = "YT" -> << TaxBracket(57375, 640), TaxBracket(114750, 900),
                        TaxBracket(177882, 1090), TaxBracket(500000, 1280),
                        TopBracket(1500) >>

ProvinceRegistry ==
    [c \in ProvinceCode |->
        [code |-> ProvinceCodeField(c), name |-> ProvinceName(c),
         taxBrackets |-> ProvinceBrackets(c)]]

----------------------------------------------------------------------------
(* calculator.ts: the bracket rate functions *)

\* marginalRateFrom comparing with < : a threshold is an exclusive upper bound
RECURSIVE marginalRateExclusive(_, _, _)
marginalRateExclusive(inc, bs, i) ==
    IF i > Len(bs) THEN bs[Len(bs)].rate
    ELSE IF RLt(inc, bs[i].threshold) THEN bs[i].rate
    ELSE marginalRateExclusive(inc, bs, i + 1)

\* marginalRateFrom falling back to the first bracket instead of the last
RECURSIVE marginalRateFallbackFirst(_, _, _)
marginalRateFallbackFirst(inc, bs, i) ==
    IF i > Len(bs) THEN bs[1].rate
    ELSE IF RLe(inc, bs[i].threshold) THEN bs[i].rate
    ELSE marginalRateFallbackFirst(inc, bs, i + 1)

\* for (const bracket of brackets) { if (income <= bracket.threshold) return bracket.rate }
\* return brackets[brackets.length - 1].rate
RECURSIVE marginalRateFrom(_, _, _)
marginalRateFrom(inc, bs, i) ==
    IF i > Len(bs) THEN bs[Len(bs)].rate
    ELSE IF RLe(inc, bs[i].threshold) THEN bs[i].rate
    ELSE marginalRateFrom(inc, bs, i + 1)

marginalRate(inc, bs) == marginalRateFrom(inc, bs, 1)

\* totalTaxFrom never advancing previousThreshold
RECURSIVE totalTaxFromZero(_, _, _, _, _)
totalTaxFromZero(inc, bs, i, totalTax, previousThreshold) ==
    IF i > Len(bs) THEN totalTax
    ELSE LET bracket == bs[i]
             taxableInBracket == RSub(RMin(inc, bracket.threshold), previousThreshold)
             tax == IF RGt(taxableInBracket, Whole(0))
                    THEN RAdd(totalTax, RMul(taxableInBracket, bracket.rate))
                    ELSE totalTax
         IN  IF RLe(inc, bracket.threshold) THEN tax
             ELSE totalTaxFromZero(inc, bs, i + 1, tax, previousThreshold)

\* the loop of effectiveTaxRate from bracket i on, returning totalTax
RECURSIVE totalTaxFrom(_, _, _, _, _)
totalTaxFrom(inc, bs, i, totalTax, previousThreshold) ==
    IF i > Len(bs) THEN totalTax
    ELSE LET bracket == bs[i]
             taxableInBracket == RSub(RMin(inc, bracket.threshold), previousThreshold)
             tax == IF RGt(taxableInBracket, Whole(0))
                    THEN RAdd(totalTax, RMul(taxableInBracket, bracket.rate))
                    ELSE totalTax
         IN  IF RLe(inc, bracket.threshold) THEN tax
             ELSE totalTaxFrom(inc, bs, i + 1, tax, bracket.threshold)

\* effectiveTaxRate without its guard on a non-positive income
effectiveTaxRateUnguarded(inc, bs) ==
    RDiv(totalTaxFrom(inc, bs, 1, Whole(0), Whole(0)), inc)

effectiveTaxRate(inc, bs) ==
    IF RLe(inc, Whole(0)) THEN Whole(0)
    ELSE RDiv(totalTaxFrom(inc, bs, 1, Whole(0), Whole(0)), inc)

\* marginalFederalTaxRate / marginalProvincialTaxRate
marginalFederalTaxRate(inc) == marginalRate(inc, FEDERAL_TAX_BRACKETS)

marginalProvincialTaxRate(inc, province) == marginalRate(inc, province.taxBrackets)

\* effectiveFederalTaxRate / effectiveProvincialTaxRate
effectiveFederalTaxRate(inc) == effectiveTaxRate(inc, FEDERAL_TAX_BRACKETS)

effectiveProvincialTaxRate(inc, province) == effectiveTaxRate(inc, province.taxBrackets)

----------------------------------------------------------------------------
(* calculator.ts: calculate *)

\* throw new Error(message); a template literal is kept as its pieces
Throw(message) == [threw |-> TRUE, message |-> message]

Return(value) == [threw |-> FALSE, value |-> value]

\* Validate testing the expense before the income
ValidateExpenseFirst(in) ==
    IF RLt(in.annualMedicalExpenses, Whole(0))
    THEN <<"annualMedicalExpenses must be >= 0">>
    ELSE IF RLe(in.annualIncome, Whole(0))
    THEN <<"annualIncome must be greater than 0">>
    ELSE IF in.province \notin DOMAIN PROVINCES
    THEN <<"Invalid province code: ", in.province>>
    ELSE <<>>

\* Validate rejecting an expense of 0 as well
ValidateExpensePositive(in) ==
    IF RLe(in.annualIncome, Whole(0))
    THEN <<"annualIncome must be greater than 0">>
    ELSE IF RLe(in.annualMedicalExpenses, Whole(0))
    THEN <<"annualMedicalExpenses must be >= 0">>
    ELSE IF in.province \notin DOMAIN PROVINCES
    THEN <<"Invalid province code: ", in.province>>
    ELSE <<>>

\* the three guards of calculate, in the order the code tests them
Validate(in) ==
    IF RLe(in.annualIncome, Whole(0))
    THEN <<"annualIncome must be greater than 0">>
    ELSE IF RLt(in.annualMedicalExpenses, Whole(0))
    THEN <<"annualMedicalExpenses must be >= 0">>
    ELSE IF in.province \notin DOMAIN PROVINCES
    THEN <<"Invalid province code: ", in.province>>
    ELSE <<>>

\* MarginalTaxRates leaving the provincial rate out of the combined rate
MarginalTaxRatesFederalOnly(in) ==
    LET province == PROVINCES[in.province]
        federalTaxRate == marginalFederalTaxRate(in.annualIncome)
        provincialTaxRate == marginalProvincialTaxRate(in.annualIncome, province)
    IN  [federalTaxRate |-> federalTaxRate,
         provincialTaxRate |-> provincialTaxRate,
         marginalTaxRate |-> federalTaxRate]

\* federalTaxRate, provincialTaxRate and marginalTaxRate of calculate
MarginalTaxRates(in) ==
    LET province == PROVINCES[in.province]
        federalTaxRate == marginalFederalTaxRate(in.annualIncome)
        provincialTaxRate == marginalProvincialTaxRate(in.annualIncome, province)
    IN  [federalTaxRate |-> federalTaxRate,
         provincialTaxRate |-> provincialTaxRate,
         marginalTaxRate |-> RAdd(federalTaxRate, provincialTaxRate)]

\* Amounts charging the admin fee on the plan fee as well
AmountsFeeOnPlan(in, marginalTaxRate) ==
    LET adminFee == RMul(RAdd(in.annualMedicalExpenses, in.annualPlanFee), in.adminFeeRate)
        totalBusinessCost ==
            RAdd(RAdd(in.annualMedicalExpenses, adminFee), in.annualPlanFee)
        requiredPersonalIncome ==
            RDiv(in.annualMedicalExpenses, RSub(Whole(1), marginalTaxRate))
    IN  [adminFee |-> adminFee,
         totalBusinessCost |-> totalBusinessCost,
         requiredPersonalIncome |-> requiredPersonalIncome,
         savings |-> RSub(requiredPersonalIncome, totalBusinessCost),
         breakEven |->
            RDiv(RMul(in.annualPlanFee, RSub(Whole(1), marginalTaxRate)), marginalTaxRate)]

\* Amounts grossing the expense up by the rate itself, not by 1 - rate
AmountsGrossUpByRate(in, marginalTaxRate) ==
    LET adminFee == RMul(in.annualMedicalExpenses, in.adminFeeRate)
        totalBusinessCost ==
            RAdd(RAdd(in.annualMedicalExpenses, adminFee), in.annualPlanFee)
        requiredPersonalIncome == RDiv(in.annualMedicalExpenses, marginalTaxRate)
    IN  [adminFee |-> adminFee,
         totalBusinessCost |-> totalBusinessCost,
         requiredPersonalIncome |-> requiredPersonalIncome,
         savings |-> RSub(requiredPersonalIncome, totalBusinessCost),
         breakEven |->
            RDiv(RMul(in.annualPlanFee, RSub(Whole(1), marginalTaxRate)), marginalTaxRate)]

\* adminFee, totalBusinessCost, requiredPersonalIncome, savings and breakEven
Amounts(in, marginalTaxRate) ==
    LET adminFee == RMul(in.annualMedicalExpenses, in.adminFeeRate)
        totalBusinessCost ==
            RAdd(RAdd(in.annualMedicalExpenses, adminFee), in.annualPlanFee)
        requiredPersonalIncome ==
            RDiv(in.annualMedicalExpenses, RSub(Whole(1), marginalTaxRate))
    IN  [adminFee |-> adminFee,
         totalBusinessCost |-> totalBusinessCost,
         requiredPersonalIncome |-> requiredPersonalIncome,
         savings |-> RSub(requiredPersonalIncome, totalBusinessCost),
         breakEven |->
            RDiv(RMul(in.annualPlanFee, RSub(Whole(1), marginalTaxRate)), marginalTaxRate)]

\* the record calculate builds once its guards have passed
Compute(in) ==
    LET rates == MarginalTaxRates(in)
        federalTaxRate == rates.federalTaxRate
        provincialTaxRate == rates.provincialTaxRate
        marginalTaxRate == rates.marginalTaxRate
        amounts == Amounts(in, marginalTaxRate)
        adminFee == amounts.adminFee
        totalBusinessCost == amounts.totalBusinessCost
        requiredPersonalIncome == amounts.requiredPersonalIncome
        savings == amounts.savings
        breakEven == amounts.breakEven
    IN  [adminFee |-> adminFee,
         totalBusinessCost |-> totalBusinessCost,
         requiredPersonalIncome |-> requiredPersonalIncome,
         savings |-> savings,
         marginalTaxRate |-> marginalTaxRate,
         federalTaxRate |-> federalTaxRate,
         provincialTaxRate |-> provincialTaxRate,
         annualPlanFee |-> in.annualPlanFee,
         breakEven |-> breakEven]

calculate(in) ==
    IF Validate(in) # <<>> THEN Throw(Validate(in)) ELSE Return(Compute(in))

----------------------------------------------------------------------------
(* Inputs *)

MaxBrackets == 2

MaxThreshold == 3

MaxRate == 2

MaxIncome == 4

MaxOffset == 1

\* tables of up to MaxBrackets brackets, in any order, with or without an
\* unbounded last entry; rates in tenths
SmallThresholds == {Whole(t) : t \in 0..MaxThreshold} \cup {Infinity}

SmallRates == {Norm(r, 10) : r \in 0..MaxRate}

SmallBrackets == [threshold : SmallThresholds, rate : SmallRates]

SmallTables == UNION {[1..n -> SmallBrackets] : n \in 1..MaxBrackets}

\* incomes in steps of one half, from -1 to MaxIncome
SmallIncomes == {Norm(k, 2) : k \in -2..(2 * MaxIncome)}

CompiledTables ==
    {FederalTable} \cup {ProvinceRegistry[c].taxBrackets : c \in ProvinceCode}

\* the incomes the repository's tests and README use
ExampleIncomes == {Whole(40000), Whole(80000), Whole(100000), Whole(120000), Whole(300000)}

\* the incomes the tests give the effective rate functions
TestedIncomes == {Whole(40000), Whole(100000)}

FiniteThresholds(bs) ==
    {bs[i].threshold[1] : i \in {j \in 1..Len(bs) : IsFinite(bs[j].threshold)}}

\* on, and MaxOffset to either side of, the first steps of a table
BoundaryIncomes(bs) ==
    {Whole(bs[i].threshold[1] + k) : i \in 1..2, k \in -MaxOffset..MaxOffset}

\* a province code that is not a key of PROVINCES
UnregisteredCodes == {"QC"}

\* around every step of the two tables a call reads, and around 0
IncomesFor(code) ==
    LET steps == {0} \cup FiniteThresholds(FederalTable)
                     \cup (IF code \in ProvinceCode
                           THEN FiniteThresholds(ProvinceRegistry[code].taxBrackets)
                           ELSE {})
    IN  {Whole(t + k) : t \in steps, k \in -MaxOffset..MaxOffset} \cup ExampleIncomes

Expenses == {Whole(-1), Whole(0), Whole(1000), Whole(3000)}

AdminFeeRates == {Whole(0), Dec4(500), Dec4(800)}

PlanFees == {Whole(0), Whole(120), Whole(450)}

CalculatorInput(inc, exp, code, fee, plan) ==
    [annualIncome |-> inc, annualMedicalExpenses |-> exp, province |-> code,
     adminFeeRate |-> fee, annualPlanFee |-> plan]

\* calculator.test.ts: "calculates savings for Alberta business"
AlbertaExample == CalculatorInput(Whole(120000), Whole(5000), "AB", Dec4(500), Whole(450))

\* README.md, "Usage": the documented call
OntarioExample == CalculatorInput(Whole(100000), Whole(3000), "ON", Dec4(800), Whole(120))

CalculatorInputs ==
    UNION {{CalculatorInput(inc, exp, code, fee, plan) :
                inc \in IncomesFor(code), exp \in Expenses,
                fee \in AdminFeeRates, plan \in PlanFees} :
           code \in ProvinceCode \cup UnregisteredCodes}
    \cup {AlbertaExample}

----------------------------------------------------------------------------
(* The calls *)

Tables == FEDERAL_TAX_BRACKETS = FederalTable /\ PROVINCES = ProvinceRegistry

IdleRates == income = Whole(0) /\ brackets = <<>> /\ marginal = <<>> /\ effective = <<>>

IdleCalculate == input = <<>> /\ outcome = <<>> /\ probe = "none" /\ calls = <<>>

\* a call reversing the federal table in place
FederalTableReversed ==
    /\ FEDERAL_TAX_BRACKETS' =
          [i \in 1..Len(FEDERAL_TAX_BRACKETS) |->
              FEDERAL_TAX_BRACKETS[Len(FEDERAL_TAX_BRACKETS) + 1 - i]]
    /\ UNCHANGED PROVINCES

\* no statement of the three functions assigns to, or calls a mutating method
\* on, the two exported tables
TablesUntouched == UNCHANGED <<FEDERAL_TAX_BRACKETS, PROVINCES>>

\* a caller holding an income and a table
InitRates ==
    /\ Tables
    /\ \/ brackets \in SmallTables /\ income \in SmallIncomes
       \/ brackets \in CompiledTables
          /\ income \in TestedIncomes \cup BoundaryIncomes(brackets)
    /\ marginal = <<>>
    /\ effective = <<>>
    /\ IdleCalculate

MarginalRate ==
    /\ brackets # <<>>
    /\ marginal = <<>>
    /\ marginal' = <<marginalRate(income, brackets)>>
    /\ TablesUntouched
    /\ UNCHANGED <<income, brackets, effective, input, outcome, probe, calls>>

EffectiveTaxRate ==
    /\ brackets # <<>>
    /\ effective = <<>>
    /\ effective' = <<effectiveTaxRate(income, brackets)>>
    /\ TablesUntouched
    /\ UNCHANGED <<income, brackets, marginal, input, outcome, probe, calls>>

NextRates == MarginalRate \/ EffectiveTaxRate

SpecRates == InitRates /\ [][NextRates]_vars

\* a caller holding a CalculatorInput
Init ==
    /\ Tables
    /\ IdleRates
    /\ input \in {<<in>> : in \in CalculatorInputs}
    /\ outcome = <<>>
    /\ probe = "given"
    /\ calls = <<>>

Calculate ==
    /\ input # <<>>
    /\ outcome = <<>>
    /\ outcome' = <<calculate(input[1])>>
    /\ TablesUntouched
    /\ UNCHANGED <<income, brackets, marginal, effective, input, probe, calls>>

\* the caller feeds the returned breakEven, or half or twice that amount, back
\* as annualMedicalExpenses
ProbeKinds == [below |-> Norm(1, 2), at |-> Whole(1), above |-> Whole(2)]

CalculateAtBreakEven ==
    /\ probe = "given"
    /\ outcome # <<>>
    /\ ~outcome[1].threw
    /\ \E kind \in DOMAIN ProbeKinds :
          LET in == [input[1] EXCEPT !.annualMedicalExpenses =
                        RMul(outcome[1].value.breakEven, ProbeKinds[kind])]
          IN  /\ input' = <<in>>
              /\ outcome' = <<calculate(in)>>
              /\ probe' = kind
    /\ TablesUntouched
    /\ UNCHANGED <<income, brackets, marginal, effective, calls>>

Next == Calculate \/ CalculateAtBreakEven

Spec == Init /\ [][Next]_vars

MaxCalls == 3

\* calculator.test.ts and the three ways a call fails
RepeatedInputs ==
    {OntarioExample, AlbertaExample,
     [OntarioExample EXCEPT !.annualIncome = Whole(0)],
     [OntarioExample EXCEPT !.annualMedicalExpenses = Whole(-1)],
     [OntarioExample EXCEPT !.province = "QC"]}

\* the exported tables as a caller finds them
SharedTables ==
    {FEDERAL_TAX_BRACKETS} \cup {PROVINCES[c].taxBrackets : c \in DOMAIN PROVINCES}

\* a caller that has called nothing yet
InitCalls == Tables /\ IdleRates /\ IdleCalculate

CallCalculate ==
    /\ Len(calls) < MaxCalls
    /\ \E in \in RepeatedInputs :
          /\ input' = <<in>>
          /\ outcome' = <<calculate(in)>>
          /\ calls' = Append(calls, [input |-> in, outcome |-> calculate(in)])
    /\ probe' = "given"
    /\ TablesUntouched
    /\ UNCHANGED <<income, brackets, marginal, effective>>

CallMarginalRate ==
    /\ \E inc \in TestedIncomes, bs \in SharedTables :
          /\ income' = inc
          /\ brackets' = bs
          /\ marginal' = <<marginalRate(inc, bs)>>
    /\ effective' = <<>>
    /\ TablesUntouched
    /\ UNCHANGED <<input, outcome, probe, calls>>

CallEffectiveTaxRate ==
    /\ \E inc \in TestedIncomes, bs \in SharedTables :
          /\ income' = inc
          /\ brackets' = bs
          /\ effective' = <<effectiveTaxRate(inc, bs)>>
    /\ marginal' = <<>>
    /\ TablesUntouched
    /\ UNCHANGED <<input, outcome, probe, calls>>

NextCalls == CallCalculate \/ CallMarginalRate \/ CallEffectiveTaxRate

\* any sequence of calls of the three functions, MaxCalls of them of calculate
SpecCalls == InitCalls /\ [][NextCalls]_vars

----------------------------------------------------------------------------
(* Properties *)

Called == outcome # <<>>

Returned == Called /\ ~outcome[1].threw

Thrown == Called /\ outcome[1].threw

\* the preconditions of calculate
ValidInput(in) ==
    /\ RGt(in.annualIncome, Whole(0))
    /\ RLe(Whole(0), in.annualMedicalExpenses)
    /\ in.province \in ProvinceCode

\* the brackets of bs that cover inc, by position
Covering(inc, bs) == {i \in 1..Len(bs) : RLe(inc, bs[i].threshold)}

Least(S) == CHOOSE i \in S : \A j \in S : i <= j

StrictlyIncreasingThresholds(bs) ==
    \A i \in 1..(Len(bs) - 1) : RLt(bs[i].threshold, bs[i + 1].threshold)

NonDecreasingRates(bs) ==
    \A i \in 1..(Len(bs) - 1) : RLe(bs[i].rate, bs[i + 1].rate)

\* C1: for every valid input calculate returns a record with
\* federalTaxRate = marginalRate(income, federal table), provincialTaxRate =
\* marginalRate(income, province table), marginalTaxRate = their sum,
\* adminFee = expenses * adminFeeRate, totalBusinessCost = expenses + adminFee
\* + annualPlanFee, requiredPersonalIncome = expenses / (1 - marginalTaxRate),
\* savings = requiredPersonalIncome - totalBusinessCost, breakEven =
\* annualPlanFee * (1 - marginalTaxRate) / marginalTaxRate, and annualPlanFee
\* echoed unchanged.
C1_ResultFields ==
    (Called /\ ValidInput(input[1])) =>
        /\ Returned
        /\ LET in == input[1]
               r == outcome[1].value
               fed == FederalTable
               prov == ProvinceRegistry[in.province].taxBrackets
           IN  /\ r.federalTaxRate = fed[Least(Covering(in.annualIncome, fed))].rate
               /\ r.provincialTaxRate = prov[Least(Covering(in.annualIncome, prov))].rate
               /\ r.marginalTaxRate = RAdd(r.federalTaxRate, r.provincialTaxRate)
               /\ r.adminFee = RMul(in.annualMedicalExpenses, in.adminFeeRate)
               /\ r.totalBusinessCost =
                     RAdd(RAdd(in.annualMedicalExpenses, r.adminFee), in.annualPlanFee)
               /\ r.requiredPersonalIncome =
                     RDiv(in.annualMedicalExpenses, RSub(Whole(1), r.marginalTaxRate))
               /\ r.savings = RSub(r.requiredPersonalIncome, r.totalBusinessCost)
               /\ r.breakEven =
                     RDiv(RMul(in.annualPlanFee, RSub(Whole(1), r.marginalTaxRate)),
                          r.marginalTaxRate)
               /\ r.annualPlanFee = in.annualPlanFee
               /\ DOMAIN r = {"adminFee", "totalBusinessCost", "requiredPersonalIncome",
                              "savings", "marginalTaxRate", "federalTaxRate",
                              "provincialTaxRate", "annualPlanFee", "breakEven"}

\* calculator.test.ts: the Alberta call has returned 0.36, 250 and 5700
C1_Witness ==
    /\ Returned
    /\ input[1] = AlbertaExample
    /\ outcome[1].value.marginalTaxRate = Dec4(3600)
    /\ outcome[1].value.adminFee = Whole(250)
    /\ outcome[1].value.totalBusinessCost = Whole(5700)
    /\ RGt(outcome[1].value.savings, Whole(0))

\* C2: marginalRate returns the rate of the first bracket, in table order,
\* whose threshold is >= income (the last bracket's rate when there is none);
\* in a table of increasing thresholds an income equal to a threshold T gets
\* that bracket's rate, an income above T and not above the next threshold
\* gets the next bracket's rate; an income of 0 gets the first bracket's rate.
C2_FirstCoveringBracket ==
    marginal # <<>> =>
        LET m == marginal[1]
            S == Covering(income, brackets)
            n == Len(brackets)
        IN  /\ S # {} => m = brackets[Least(S)].rate
            /\ S = {} => m = brackets[n].rate
            /\ StrictlyIncreasingThresholds(brackets) =>
                  \A i \in 1..n :
                     /\ income = brackets[i].threshold => m = brackets[i].rate
                     /\ (/\ i < n
                         /\ RGt(income, brackets[i].threshold)
                         /\ RLe(income, brackets[i + 1].threshold))
                           => m = brackets[i + 1].rate
            /\ income = Whole(0) => m = brackets[1].rate

\* an income exactly on the first federal threshold has been given 15%
C2_Witness ==
    /\ marginal = <<Dec4(1500)>>
    /\ brackets = FederalTable
    /\ income = brackets[1].threshold

\* C3: the returned breakEven is the minimum medical expense for the HSA to
\* save money: calculate called with annualMedicalExpenses equal to it yields
\* savings == 0, any smaller expense yields savings < 0 and any larger expense
\* yields savings > 0.
C3_BreakEvenIsZeroSavings ==
    Returned =>
        LET expenses == input[1].annualMedicalExpenses
            r == outcome[1].value
        IN  /\ expenses = r.breakEven => r.savings = Whole(0)
            /\ RLt(expenses, r.breakEven) => RLt(r.savings, Whole(0))
            /\ RGt(expenses, r.breakEven) => RGt(r.savings, Whole(0))

\* C4: calculate with annualIncome <= 0 fails with 'annualIncome must be
\* greater than 0' and returns nothing, whatever the other inputs are.
C4_InvalidIncomeFirst ==
    (Called /\ RLe(input[1].annualIncome, Whole(0))) =>
        /\ Thrown
        /\ outcome[1].message = <<"annualIncome must be greater than 0">>

\* a call with a non-positive income, a negative expense and an unregistered
\* province has thrown
C4_Witness ==
    /\ Thrown
    /\ RLe(input[1].annualIncome, Whole(0))
    /\ RLt(input[1].annualMedicalExpenses, Whole(0))
    /\ input[1].province \notin ProvinceCode

\* C5: calculate with annualMedicalExpenses == 0 and otherwise valid inputs
\* returns adminFee == 0, totalBusinessCost == annualPlanFee,
\* requiredPersonalIncome == 0 and savings == -annualPlanFee.
C5_ZeroExpenses ==
    (Called /\ ValidInput(input[1]) /\ input[1].annualMedicalExpenses = Whole(0)) =>
        /\ Returned
        /\ outcome[1].value.adminFee = Whole(0)
        /\ outcome[1].value.totalBusinessCost = input[1].annualPlanFee
        /\ outcome[1].value.requiredPersonalIncome = Whole(0)
        /\ outcome[1].value.savings = RNeg(input[1].annualPlanFee)

\* calculator.test.ts: the Ontario call with no expenses has returned -120
C5_Witness ==
    /\ Returned
    /\ input[1] = [OntarioExample EXCEPT !.annualMedicalExpenses = Whole(0)]
    /\ outcome[1].value.savings = Whole(-120)

BothRates == marginal # <<>> /\ effective # <<>>

IncomesWith(bs) ==
    IF bs \in CompiledTables THEN TestedIncomes \cup BoundaryIncomes(bs) ELSE SmallIncomes

\* marginalRate(a, table) <= marginalRate(b, table) for the income a of the
\* call made and every income b >= a
MarginalRateNonDecreasing ==
    \A b \in IncomesWith(brackets) :
        RLe(income, b) => RLe(marginal[1], marginalRate(b, brackets))

\* C7, as claimed: for any bracket table with strictly increasing thresholds,
\* marginalRate(a, table) <= marginalRate(b, table) for all incomes a <= b.
C7_MonotoneInIncome ==
    (marginal # <<>> /\ StrictlyIncreasingThresholds(brackets))
        => MarginalRateNonDecreasing

\* C7, amended: for any bracket table with strictly increasing thresholds and
\* non-decreasing rates, marginalRate(a, table) <= marginalRate(b, table) for
\* all incomes a <= b.
C7_MonotoneInIncomeProgressive ==
    (/\ marginal # <<>>
     /\ StrictlyIncreasingThresholds(brackets)
     /\ NonDecreasingRates(brackets))
        => MarginalRateNonDecreasing

\* a table of two increasing steps with rising rates, whose rate at the call's
\* income is below its rate at a higher income
C7_Witness ==
    /\ marginal # <<>>
    /\ Len(brackets) = 2
    /\ StrictlyIncreasingThresholds(brackets)
    /\ RLt(brackets[1].rate, brackets[2].rate)
    /\ \E b \in IncomesWith(brackets) :
          RLt(income, b) /\ RLt(marginal[1], marginalRate(b, brackets))

\* sum over the brackets i..Len(bs) of rate_i * max(0, min(inc, threshold_i) - prev),
\* prev being threshold_(i-1), and 0 for the first bracket
RECURSIVE BracketTaxSum(_, _, _, _)
BracketTaxSum(inc, bs, i, prev) ==
    IF i > Len(bs) THEN Whole(0)
    ELSE LET width == RSub(RMin(inc, bs[i].threshold), prev)
             slice == IF RGt(width, Whole(0)) THEN width ELSE Whole(0)
         IN  RAdd(RMul(bs[i].rate, slice), BracketTaxSum(inc, bs, i + 1, bs[i].threshold))

Round2(x) == Norm((200 * x[1] + x[2]) \div (2 * x[2]), 100)

C11_Deterministic ==
    /\ \A i, j \in DOMAIN calls :
          calls[i].input = calls[j].input => calls[i].outcome = calls[j].outcome
    /\ FEDERAL_TAX_BRACKETS = FederalTable
    /\ PROVINCES = ProvinceRegistry

\* the documented call made twice, with a different call of calculate and a
\* call of a rate function on the federal table in between
C11_Witness ==
    /\ Len(calls) = 3
    /\ calls[1].input = OntarioExample
    /\ calls[3].input = OntarioExample
    /\ calls[2].input = AlbertaExample
    /\ ~calls[3].outcome.threw
    /\ brackets = FEDERAL_TAX_BRACKETS
    /\ marginal # <<>>

\* the BracketTable invariant: at least one entry, thresholds strictly
\* increasing, rates non-decreasing, the last threshold Infinity
BracketTable(bs) ==
    /\ Len(bs) >= 1
    /\ StrictlyIncreasingThresholds(bs)
    /\ NonDecreasingRates(bs)
    /\ bs[Len(bs)].threshold = Infinity

\* C12: FEDERAL_TAX_BRACKETS and the taxBrackets of each of the 10 entries of
\* PROVINCES satisfy the BracketTable invariant, and each entry's code equals
\* its registry key.
C12_CompiledTables ==
    /\ BracketTable(FEDERAL_TAX_BRACKETS)
    /\ Cardinality(DOMAIN PROVINCES) = 10
    /\ \A c \in DOMAIN PROVINCES :
          /\ BracketTable(PROVINCES[c].taxBrackets)
          /\ PROVINCES[c].code = c

\* a caller has read the longest table, Newfoundland and Labrador's eight
\* brackets, for $100k: 15.8%
C12_Witness ==
    /\ brackets = PROVINCES["NL"].taxBrackets
    /\ Len(brackets) = 8
    /\ income = Whole(100000)
    /\ marginal = <<Dec4(1580)>>

\* C13: for every registered province and every annualIncome > 0 the combined
\* marginal rate calculate computes is strictly greater than 0 and strictly
\* less than 1, so neither division (by 1 - marginalTaxRate, by
\* marginalTaxRate) has a zero or negative denominator and every returned
\* amount is finite.
C13_RateStrictlyBetween ==
    Returned =>
        LET r == outcome[1].value
        IN  /\ RGt(r.marginalTaxRate, Whole(0))
            /\ RLt(r.marginalTaxRate, Whole(1))
            /\ RGt(RSub(Whole(1), r.marginalTaxRate), Whole(0))
            /\ IsFinite(r.requiredPersonalIncome)
            /\ IsFinite(r.savings)
            /\ IsFinite(r.breakEven)

\* the highest combined rate of the tables, 54.8%, has been returned for an
\* income above the last step of Newfoundland and Labrador's table
C13_Witness ==
    /\ Returned
    /\ input[1].province = "NL"
    /\ input[1].annualIncome = Whole(1128859)
    /\ outcome[1].value.marginalTaxRate = Dec4(5480)

====
